---- MODULE Spec2Model ----
(***************************************************************************)
(* Request-handling core of the Azurite blob emulator: ContainerHandler    *)
(* (blob listing, container mutations, leases), ServiceHandler (service    *)
(* properties) and BaseBlobHandler (copy-source validation).               *)
(*                                                                         *)
(* Strings that the code inspects character by character (blob names,      *)
(* prefixes, markers, delimiters, messages) are sequences of one-character *)
(* strings; an optional value (T | undefined) is <<>> for undefined and    *)
(* <<v>> for the value v.                                                  *)
(***************************************************************************)
EXTENDS Integers, Sequences, FiniteSets, TLC

VARIABLES
    blobs,      \* metadata store: the blob models of the one container listed
    listRes,    \* last listBlobFlatSegment / listBlobHierarchySegment call and its response
    pg,         \* a client paginating listBlobFlatSegment
    cp,         \* a copy request: validateCopySource, then getCopySourceContent
    serviceProperties,  \* metadata store: the service-properties record of each account
    svcRes,     \* last ServiceHandler setProperties / getProperties call and its response
    containers, \* metadata store: the container model of each container name
    etagCounter,\* the etag generator's counter
    now,        \* the clock, in seconds
    inflight,   \* ContainerHandler requests that fixed their etag and await the store
    issued,     \* number of ContainerHandler requests issued so far
    ctrRes,     \* last ContainerHandler response (or failure)
    returned,   \* bag of the etags that successful responses carried
    rt          \* a client driving acquire, release, acquire on one container

listVars == <<blobs, listRes, pg>>
copyVars == <<cp>>
svcVars == <<serviceProperties, svcRes>>
ctrVars == <<containers, etagCounter, now, inflight, issued, ctrRes, returned, rt>>
vars == <<listVars, copyVars, svcVars, ctrVars>>

\* the states of the components a specification leaves at rest
NoResponse == [op |-> "none"]
PagerIdle == [state |-> "idle"]
CopyIdle == [pc |-> "idle"]
ClientIdle == [pc |-> "idle"]
ListQuiet == blobs = {} /\ listRes = NoResponse /\ pg = PagerIdle
CopyQuiet == cp = CopyIdle
Accounts == { "devstoreaccount1", "account2" }
SvcQuiet == serviceProperties = [a \in Accounts |-> <<>>] /\ svcRes = NoResponse
\* container requests issued in a behaviour, and clock steps of 15 seconds
MaxRequests == 3
MaxTicks == 1
ContainerNames == { "c1", "c2" }
CtrQuiet ==
    /\ containers = [c \in ContainerNames |-> <<>>]
    /\ etagCounter = 0 /\ now = 0
    /\ inflight = {} /\ issued = 0
    /\ ctrRes = NoResponse /\ returned = <<>>
    /\ rt = ClientIdle

----------------------------------------------------------------------------
(* Optional values and strings *)

None == <<>>
Some(v) == <<v>>
IsNone(o) == o = <<>>
\* JavaScript `o || d` for an optional string: undefined and "" are falsy
OrElse(o, d) == IF o = <<>> THEN d ELSE IF o[1] = <<>> THEN d ELSE o[1]
\* JavaScript `o || d` for an optional number: undefined and 0 are falsy
OrElseNumber(o, d) == IF o = <<>> THEN d ELSE IF o[1] = 0 THEN d ELSE o[1]
\* a default parameter value `p = d`: only undefined takes the default
Default(o, d) == IF o = <<>> THEN d ELSE o[1]

EmptyString == <<>>
\* UTF-16 code units of the characters used, the order JavaScript compares strings by
Code(c) == CASE c = "\n" -> 10 [] c = "/" -> 47 [] c = "a" -> 97 [] c = "b" -> 98

Min(a, b) == IF a < b THEN a ELSE b

\* s < t for JavaScript strings: lexicographic by code unit
RECURSIVE LessFrom(_, _, _)
LessFrom(s, t, i) ==
    IF i > Len(t) THEN FALSE
    ELSE IF i > Len(s) THEN TRUE
    ELSE IF s[i] # t[i] THEN Code(s[i]) < Code(t[i])
    ELSE LessFrom(s, t, i + 1)
Less(s, t) == LessFrom(s, t, 1)

\* String.prototype.startsWith
StartsWith(s, p) == Len(p) <= Len(s) /\ SubSeq(s, 1, Len(p)) = p

\* String.prototype.indexOf(d, from) for a non-empty d: 0-based position, -1 when absent
RECURSIVE indexOf(_, _, _)
indexOf(s, d, from) ==
    IF from + Len(d) > Len(s) THEN -1
    ELSE IF SubSeq(s, from + 1, from + Len(d)) = d THEN from
    ELSE indexOf(s, d, from + 1)

\* String.prototype.substr(0, n)
substr0(s, n) == SubSeq(s, 1, Min(n, Len(s)))

----------------------------------------------------------------------------
(* Bounds and input sets of the listing model *)

MaxBlobs == 3
MaxResults == 2

\* src/unnamed/part_000:24
LIST_BLOBS_MAX_RESULTS_DEFAULT == 5000

BlobNames == { <<"a">>, <<"a", "/">>, <<"a", "/", "a">>, <<"a", "/", "b">>,
               <<"a", "b">>, <<"b">>, <<"b", "/", "a">>, <<"/", "a">> }
Prefixes == { None, Some(EmptyString), Some(<<"a">>), Some(<<"a", "/">>), Some(<<"b">>) }
Markers == { None, Some(EmptyString), Some(<<"a">>), Some(<<"a", "/", "a">>), Some(<<"b">>) }
Delimiters == { EmptyString, <<"/">>, <<"a">>, <<"/", "a">> }
MaxResultsOptions == { None } \cup { Some(n) : n \in 1..MaxResults }

\* the soft-delete marker of a stored blob model: deleted?: boolean
DeletedValues == <<"undefined", "false", "true">>

----------------------------------------------------------------------------
(* Metadata store: listBlobs *)

\* ascending name order of a set of blob models with distinct names
RECURSIVE SortByName(_)
SortByName(S) ==
    IF S = {} THEN <<>>
    ELSE LET first == CHOOSE b \in S : \A c \in S : c = b \/ Less(b.name, c.name)
         IN <<first>> \o SortByName(S \ {first})

\* the blobs of the container matching (prefix, marker), in name order
Matching(store, prefix, marker) ==
    SortByName({ b \in store : StartsWith(b.name, prefix) /\ Less(marker, b.name) })

nextMarkerOf(all, maxResults) ==
    IF Len(all) > maxResults THEN Some(all[maxResults + 1].name) ELSE None

\* listBlobs(account, container, blob, prefix, maxResults, marker, includeSnapshots)
\*   -> [items, nextMarker]; the store holds base blobs only, no snapshots
listBlobs(store, prefix, maxResults, marker) ==
    LET all == Matching(store, Default(prefix, EmptyString), Default(marker, EmptyString))
        n == Default(maxResults, LIST_BLOBS_MAX_RESULTS_DEFAULT)
    IN <<SubSeq(all, 1, Min(n, Len(all))), nextMarkerOf(all, n)>>

----------------------------------------------------------------------------
(* ContainerHandler: listing *)

normalizeDeleted_keep(blob) == blob
\* blob.deleted = blob.deleted !== true ? undefined : true
normalizeDeleted(blob) ==
    [blob EXCEPT !.deleted = IF blob.deleted # "true" THEN "undefined" ELSE "true"]

listBlobFlatSegment_noPrefix(store, options) ==
    LET res == listBlobs(store, None, options.maxresults, options.marker)
    IN [op |-> "flat", options |-> options, scanned |-> res[1],
        prefix |-> OrElse(options.prefix, EmptyString),
        marker |-> OrElse(options.marker, EmptyString),
        maxResults |-> OrElseNumber(options.maxresults, LIST_BLOBS_MAX_RESULTS_DEFAULT),
        delimiter |-> EmptyString,
        blobItems |-> [i \in 1..Len(res[1]) |-> normalizeDeleted(res[1][i])],
        blobPrefixes |-> <<>>,
        nextMarker |-> OrElse(res[2], EmptyString)]
listBlobFlatSegment(store, options) ==
    LET res == listBlobs(store, options.prefix, options.maxresults, options.marker)
    IN [op |-> "flat", options |-> options, scanned |-> res[1],
        prefix |-> OrElse(options.prefix, EmptyString),
        marker |-> OrElse(options.marker, EmptyString),
        maxResults |-> OrElseNumber(options.maxresults, LIST_BLOBS_MAX_RESULTS_DEFAULT),
        delimiter |-> EmptyString,
        blobItems |-> [i \in 1..Len(res[1]) |-> normalizeDeleted(res[1][i])],
        blobPrefixes |-> <<>>,
        nextMarker |-> OrElse(res[2], EmptyString)]

SetAdd_push(seq, v) == Append(seq, v)
\* Set.prototype.add on an insertion-ordered Set
SetAdd(seq, v) == IF \E i \in 1..Len(seq) : seq[i] = v THEN seq ELSE Append(seq, v)

\* the for loop of listBlobHierarchySegment over blobs[i..]
RECURSIVE partitionBlobs(_, _, _, _, _)
partitionBlobs(scanned, i, delimiter, prefixLength, acc) ==
    IF i > Len(scanned) THEN acc
    ELSE LET blob == scanned[i]
             delimiterPosAfterPrefix == indexOf(blob.name, delimiter, prefixLength)
         IN IF delimiterPosAfterPrefix < 0
            THEN partitionBlobs(scanned, i + 1, delimiter, prefixLength,
                     [acc EXCEPT !.blobItems = Append(@, normalizeDeleted(blob))])
            ELSE partitionBlobs(scanned, i + 1, delimiter, prefixLength,
                     [acc EXCEPT !.blobPrefixesSet =
                         SetAdd(@, substr0(blob.name, delimiterPosAfterPrefix + 1))])

listBlobHierarchySegment(store, delimiterArg, options) ==
    LET delimiter == IF delimiterArg = EmptyString THEN <<"/">> ELSE delimiterArg
        prefix == OrElse(options.prefix, EmptyString)
        res == listBlobs(store, Some(prefix), options.maxresults, options.marker)
        acc == partitionBlobs(res[1], 1, delimiter, Len(prefix),
                              [blobItems |-> <<>>, blobPrefixesSet |-> <<>>])
    IN [op |-> "hierarchy", options |-> options, scanned |-> res[1],
        prefix |-> prefix,
        marker |-> OrElse(options.marker, EmptyString),
        maxResults |-> OrElseNumber(options.maxresults, LIST_BLOBS_MAX_RESULTS_DEFAULT),
        delimiter |-> delimiter,
        blobItems |-> acc.blobItems,
        blobPrefixes |-> acc.blobPrefixesSet,
        nextMarker |-> OrElse(res[2], EmptyString)]

----------------------------------------------------------------------------
(* Listing: state machine *)

ListOptions == [prefix : Prefixes, maxresults : MaxResultsOptions, marker : Markers]

\* the stores listed: up to MaxBlobs blobs with distinct names; the deleted
\* markers rotate through undefined, false, true along the name order
Store(names, k) ==
    LET sorted == SortByName({ [name |-> n] : n \in names })
    IN { [name |-> sorted[i].name, deleted |-> DeletedValues[((i + k) % 3) + 1]]
         : i \in 1..Len(sorted) }


ListInit ==
    /\ \E names \in SUBSET BlobNames, k \in 0..2 :
          /\ Cardinality(names) <= MaxBlobs
          /\ blobs = Store(names, k)
    /\ listRes = NoResponse
    /\ pg = PagerIdle
    /\ CopyQuiet /\ SvcQuiet /\ CtrQuiet

\* one listing request against the store as it stands; the handler keeps no
\* state between calls, so each behaviour issues one call
ListBlobFlatSegment ==
    /\ listRes = NoResponse
    /\ \E options \in ListOptions : listRes' = listBlobFlatSegment(blobs, options)
    /\ UNCHANGED <<blobs, pg, copyVars, svcVars, ctrVars>>

ListBlobHierarchySegment ==
    /\ listRes = NoResponse
    /\ \E delimiter \in Delimiters, options \in ListOptions :
          listRes' = listBlobHierarchySegment(blobs, delimiter, options)
    /\ UNCHANGED <<blobs, pg, copyVars, svcVars, ctrVars>>

\* a client starts paginating from an empty marker
PagerStart ==
    /\ pg.state = "idle"
    /\ \E prefix \in Prefixes, maxresults \in MaxResultsOptions :
          pg' = [state |-> "paging", prefix |-> prefix, maxresults |-> maxresults,
                 marker |-> EmptyString, names |-> <<>>, calls |-> 0]
    /\ UNCHANGED <<blobs, listRes, copyVars, svcVars, ctrVars>>

\* one listBlobFlatSegment call with the marker the previous page returned
PagerNextPage ==
    /\ pg.state = "paging"
    /\ LET res == listBlobFlatSegment(blobs,
                      [prefix |-> pg.prefix, maxresults |-> pg.maxresults,
                       marker |-> Some(pg.marker)])
       IN /\ listRes' = res
          /\ pg' = [pg EXCEPT
                      !.names = @ \o [i \in 1..Len(res.blobItems) |-> res.blobItems[i].name],
                      !.marker = res.nextMarker,
                      !.calls = @ + 1,
                      !.state = IF res.nextMarker = EmptyString THEN "done" ELSE "paging"]
    /\ UNCHANGED <<blobs, copyVars, svcVars, ctrVars>>

ListNext == ListBlobFlatSegment \/ ListBlobHierarchySegment
SpecList == ListInit /\ [][ListNext]_vars

PageNext == PagerStart \/ PagerNextPage
SpecPage == ListInit /\ [][PageNext]_vars

\* a client starts paginating the hierarchy listing from an empty marker
HierarchyPagerStart ==
    /\ pg.state = "idle"
    /\ \E prefix \in Prefixes, maxresults \in MaxResultsOptions, delimiter \in Delimiters :
          pg' = [state |-> "paging", prefix |-> prefix, maxresults |-> maxresults,
                 delimiter |-> delimiter, marker |-> EmptyString, pages |-> <<>>]
    /\ UNCHANGED <<blobs, listRes, copyVars, svcVars, ctrVars>>

\* one listBlobHierarchySegment call with the marker the previous page returned
HierarchyPagerNextPage ==
    /\ pg.state = "paging"
    /\ LET res == listBlobHierarchySegment(blobs, pg.delimiter,
                      [prefix |-> pg.prefix, maxresults |-> pg.maxresults,
                       marker |-> Some(pg.marker)])
       IN /\ listRes' = res
          /\ pg' = [pg EXCEPT
                      !.pages = Append(@, [scanned |-> Len(res.scanned),
                                           blobItems |-> [i \in 1..Len(res.blobItems) |->
                                                            res.blobItems[i].name],
                                           blobPrefixes |-> res.blobPrefixes]),
                      !.marker = res.nextMarker,
                      !.state = IF res.nextMarker = EmptyString THEN "done" ELSE "paging"]
    /\ UNCHANGED <<blobs, copyVars, svcVars, ctrVars>>

HierarchyPageNext == HierarchyPagerStart \/ HierarchyPagerNextPage
SpecHierarchyPage == ListInit /\ [][HierarchyPageNext]_vars

----------------------------------------------------------------------------
(* Listing: properties *)

NamesOf(items) == [i \in 1..Len(items) |-> items[i].name]
Ascending(names) == \A i \in 1..Len(names) - 1 : Less(names[i], names[i + 1])

C2_FlatPageContract ==
    listRes.op = "flat" =>
        LET names == NamesOf(listRes.blobItems)
            prefix == Default(listRes.options.prefix, EmptyString)
            marker == Default(listRes.options.marker, EmptyString)
        IN /\ \A i \in 1..Len(names) :
                 /\ StartsWith(names[i], prefix)
                 /\ marker # EmptyString => Less(marker, names[i])
                 /\ \E b \in blobs : b.name = names[i]
           /\ Ascending(names)
           /\ Len(names) <= Default(listRes.options.maxresults, LIST_BLOBS_MAX_RESULTS_DEFAULT)

\* a flat page cut by prefix, marker and maxResults at once
C2_Witness ==
    /\ listRes.op = "flat"
    /\ listRes.options = [prefix |-> Some(<<"a">>), maxresults |-> Some(1),
                          marker |-> Some(<<"a">>)]
    /\ NamesOf(listRes.blobItems) = << <<"a", "/">> >>
    /\ listRes.nextMarker # EmptyString
    /\ \E b \in blobs : b.name = <<"a">>

\* positions (0-based) at or after the request prefix where the delimiter occurs in name
DelimiterPositions(name, delimiter, prefixLength) ==
    { p \in prefixLength..(Len(name) - Len(delimiter)) :
        SubSeq(name, p + 1, p + Len(delimiter)) = delimiter }
HasDelimiter(name, delimiter, prefixLength) ==
    DelimiterPositions(name, delimiter, prefixLength) # {}
\* entry stands for name: it is the start of name up to a point inside the
\* first occurrence of the delimiter at or after the request prefix
Represents(entry, name, delimiter, prefixLength) ==
    LET P == DelimiterPositions(name, delimiter, prefixLength)
        p == CHOOSE q \in P : \A r \in P : q <= r
    IN /\ P # {}
       /\ Len(entry) > p /\ Len(entry) <= p + Len(delimiter)
       /\ StartsWith(name, entry)

\* C3: in one page of listBlobHierarchySegment every scanned blob with the
\* delimiter at or after the end of the request prefix is absent from blobItems
\* and represented by exactly one BlobPrefix entry; blobPrefixes holds no name
\* twice and is in first-seen order; every scanned blob without the delimiter
\* after the prefix is in blobItems.
C3_HierarchyPartition ==
    listRes.op = "hierarchy" =>
        LET d == listRes.delimiter
            pl == Len(listRes.prefix)
            scanned == NamesOf(listRes.scanned)
            items == NamesOf(listRes.blobItems)
            bp == listRes.blobPrefixes
            Grouped(i) == HasDelimiter(scanned[i], d, pl)
            FirstSeen(v) == CHOOSE i \in 1..Len(scanned) :
                               /\ Represents(v, scanned[i], d, pl)
                               /\ \A j \in 1..(i - 1) : ~Represents(v, scanned[j], d, pl)
        IN /\ \A i \in 1..Len(scanned) :
                 IF Grouped(i)
                 THEN /\ \A k \in 1..Len(items) : items[k] # scanned[i]
                      /\ Cardinality({ k \in 1..Len(bp) :
                                         Represents(bp[k], scanned[i], d, pl) }) = 1
                 ELSE \E k \in 1..Len(items) : items[k] = scanned[i]
           /\ \A k \in 1..Len(bp) :
                 \E i \in 1..Len(scanned) : Represents(bp[k], scanned[i], d, pl)
           /\ \A j, k \in 1..Len(bp) : j < k =>
                 /\ bp[j] # bp[k]
                 /\ FirstSeen(bp[j]) < FirstSeen(bp[k])

\* the spec's example: photos/a.jpg, photos/b.jpg, readme.txt ~ a/a, a/b, b
C3_Witness ==
    /\ listRes.op = "hierarchy"
    /\ listRes.prefix = EmptyString /\ listRes.delimiter = <<"/">>
    /\ NamesOf(listRes.scanned) = << <<"a", "/", "a">>, <<"a", "/", "b">>, <<"b">> >>
    /\ NamesOf(listRes.blobItems) = << <<"b">> >>
    /\ listRes.blobPrefixes = << <<"a", "/">> >>

\* C16: for every delimiter (of any length >= 1) and every request prefix, each
\* BlobPrefix name of listBlobHierarchySegment is request prefix + one name
\* segment + the whole delimiter: it starts with the request prefix, ends with
\* the delimiter and holds the delimiter nowhere else after the request prefix.
C16_BlobPrefixEndsWithDelimiter ==
    listRes.op = "hierarchy" =>
        \A k \in 1..Len(listRes.blobPrefixes) :
            LET entry == listRes.blobPrefixes[k]
                d == listRes.delimiter
                pl == Len(listRes.prefix)
            IN /\ StartsWith(entry, listRes.prefix)
               /\ Len(entry) >= pl + Len(d)
               /\ SubSeq(entry, Len(entry) - Len(d) + 1, Len(entry)) = d
               /\ DelimiterPositions(entry, d, pl) = { Len(entry) - Len(d) }

\* the virtual prefix of a name: name[0..p+1] for the first position p of the
\* delimiter at or after the request prefix
VirtualPrefix(name, delimiter, prefixLength) ==
    LET P == DelimiterPositions(name, delimiter, prefixLength)
        p == CHOOSE q \in P : \A r \in P : q <= r
    IN SubSeq(name, 1, p + 1)

Range(seq) == { seq[i] : i \in 1..Len(seq) }

C10_DeletedNeverFalse ==
    listRes.op \in {"flat", "hierarchy"} =>
        \A i \in 1..Len(listRes.blobItems) :
            /\ listRes.blobItems[i].deleted \in {"undefined", "true"}
            /\ listRes.blobItems[i].deleted = "true" <=>
                  \E j \in 1..Len(listRes.scanned) :
                      /\ listRes.scanned[j].name = listRes.blobItems[i].name
                      /\ listRes.scanned[j].deleted = "true"

\* a hierarchy page whose emitted items the store returned with deleted
\* undefined, false and true
C10_Witness ==
    /\ listRes.op = "hierarchy"
    /\ Len(listRes.blobItems) = 3
    /\ \A v \in {"undefined", "false", "true"} :
          \E j \in 1..Len(listRes.scanned) :
              /\ listRes.scanned[j].deleted = v
              /\ \E i \in 1..3 : listRes.blobItems[i].name = listRes.scanned[j].name

----------------------------------------------------------------------------
(* BaseBlobHandler: copy-source validation *)

\* the copy sources tried, and what `new URL(copySource)` makes of each:
\* it throws on the first, lower-cases the host name and drops a default port
CopySources == { "not a url",
                 "http://127.0.0.1:10000/devstoreaccount1/c/b",
                 "http://LOCALHOST:10000/devstoreaccount1/c/b",
                 "http://127.0.0.1:80/devstoreaccount1/c/b",
                 "http://otherhost:10000/account2/c/b?sig=s" }
URLParses(copySource) == copySource # "not a url"
URLHost(copySource) ==
    CASE copySource = "http://127.0.0.1:10000/devstoreaccount1/c/b" -> "127.0.0.1:10000"
      [] copySource = "http://LOCALHOST:10000/devstoreaccount1/c/b" -> "localhost:10000"
      [] copySource = "http://127.0.0.1:80/devstoreaccount1/c/b" -> "127.0.0.1"
      [] copySource = "http://otherhost:10000/account2/c/b?sig=s" -> "otherhost:10000"

\* the Host header of the current request (undefined when absent)
HostHeaders == { None, Some("127.0.0.1:10000"), Some("localhost:10000"),
                 Some("LOCALHOST:10000"), Some("127.0.0.1") }
\* the x-ms-source-range header of the current request
SourceRanges == { None, Some("bytes=0-511") }

\* HTTP statuses a source answers with
Statuses == { 200, 204, 206, 403, 404, 500 }
ContentTypes == { None, Some("application/xml"), Some("text/plain") }
\* the Message element of an XML error body (undefined when the body has none)
Messages == { None, Some(<<"Server failed to authenticate the request.">>),
              Some(<<"Signature", "\n", "\n", "did not match.", "\n">>) }
\* ways an axios request ends without an HTTP response
TransportErrors == { "ECONNREFUSED", "ECONNABORTED", "ETIMEDOUT" }

MessageNotExist == <<"The specified resource does not exist">>
MessageCouldNotVerify == <<"Could not verify the copy source within the specified time.">>

\* StorageErrorFactory.getInvalidHeaderValue(contextId, {HeaderName, HeaderValue})
getInvalidHeaderValue(headerName, headerValue) ==
    [code |-> "InvalidHeaderValue", statusCode |-> 400,
     HeaderName |-> headerName, HeaderValue |-> headerValue]
\* StorageErrorFactory.getCannotVerifyCopySource(contextId, statusCode, message)
getCannotVerifyCopySource(statusCode, message) ==
    [code |-> "CannotVerifyCopySource", statusCode |-> statusCode, message |-> message]
\* an axios request that got no HTTP response rejects with an AxiosError
AxiosError(errorCode) == [code |-> "AxiosError", cause |-> errorCode]

\* Message.replace(/\n+/gm, "")
stripNewlines(message) == SelectSeq(message, LAMBDA c : c # "\n")

\* the failure message for a status other than 404, unwrapped from an XML body
errorMessage(response) ==
    IF response.contentType = Some("application/xml") /\ response.Message # None
    THEN stripNewlines(response.Message[1])
    ELSE MessageCouldNotVerify

\* the metadata request of validateCopySource:
\* URLBuilder.parse(copySource) with query parameter comp=metadata, no headers
metadataRequest(copySource) ==
    [method |-> "GET", url |-> copySource, comp |-> Some("metadata"), Range |-> None]
\* the content request of getCopySourceContent: copyHeader(x-ms-source-range -> Range)
contentRequest(copySource, sourceRange) ==
    [method |-> "GET", url |-> copySource, comp |-> None, Range |-> sourceRange]

validateCopySourceStart_noHostCheck(copySource, hostHeader) ==
    IF ~URLParses(copySource)
    THEN [throw |-> Some(getInvalidHeaderValue("x-ms-copy-source", copySource)),
          request |-> None]
    ELSE [throw |-> None, request |-> Some(metadataRequest(copySource))]
validateCopySourceStart_hostFirst(copySource, hostHeader) ==
    LET currentServer == Default(hostHeader, "")
    IN IF ~URLParses(copySource) \/ currentServer # URLHost(copySource)
       THEN [throw |-> Some(getCannotVerifyCopySource(404, MessageNotExist)),
             request |-> None]
       ELSE [throw |-> None, request |-> Some(metadataRequest(copySource))]
\* validateCopySource up to its await: what it throws, or the request it issues
validateCopySourceStart(copySource, hostHeader) ==
    LET currentServer == Default(hostHeader, "")
    IN IF ~URLParses(copySource)
       THEN [throw |-> Some(getInvalidHeaderValue("x-ms-copy-source", copySource)),
             request |-> None]
       ELSE IF currentServer # URLHost(copySource)
       THEN [throw |-> Some(getCannotVerifyCopySource(404, MessageNotExist)),
             request |-> None]
       ELSE [throw |-> None, request |-> Some(metadataRequest(copySource))]

validationOutcome_any2xx(response) ==
    IF response.status >= 200 /\ response.status < 300 THEN None
    ELSE IF response.status = 404
    THEN Some(getCannotVerifyCopySource(response.status, MessageNotExist))
    ELSE Some(getCannotVerifyCopySource(response.status, errorMessage(response)))
\* validateCopySource after its await: what it throws for the probe's response
validationOutcome(response) ==
    IF response.status = 200 THEN None
    ELSE IF response.status = 404
    THEN Some(getCannotVerifyCopySource(response.status, MessageNotExist))
    ELSE Some(getCannotVerifyCopySource(response.status, errorMessage(response)))

\* getCopySourceContent after its await: what it throws for the response
contentOutcome(response) ==
    IF response.status >= 200 /\ response.status < 300 THEN None
    ELSE IF response.status = 404
    THEN Some(getCannotVerifyCopySource(response.status, MessageNotExist))
    ELSE Some(getCannotVerifyCopySource(response.status, errorMessage(response)))

Responses == [status : Statuses, contentType : ContentTypes, Message : Messages]

\* what a call returned: the value it resolved with, or the error it threw
Returned == [code |-> "OK"]
Completion(thrown) == IF thrown = None THEN Some(Returned) ELSE thrown

\* pc: idle -> probing -> validated -> fetching -> done, or -> failed;
\* validation / content: how validateCopySource / getCopySourceContent ended
CopyInit == ListQuiet /\ SvcQuiet /\ CtrQuiet /\ cp = CopyIdle

ValidateCopySource ==
    /\ cp.pc = "idle"
    /\ \E copySource \in CopySources, hostHeader \in HostHeaders, sourceRange \in SourceRanges :
          LET start == validateCopySourceStart(copySource, hostHeader)
          IN cp' = [pc |-> IF start.throw = None THEN "probing" ELSE "failed",
                    copySource |-> copySource, hostHeader |-> hostHeader,
                    sourceRange |-> sourceRange,
                    requests |-> IF start.request = None THEN <<>> ELSE <<start.request[1]>>,
                    probe |-> None, fetched |-> None, transport |-> None,
                    validation |-> start.throw, content |-> None]
    /\ UNCHANGED <<listVars, svcVars, ctrVars>>

\* the source answers the metadata request with some status
ProbeResponds ==
    /\ cp.pc = "probing"
    /\ \E response \in Responses :
          LET thrown == validationOutcome(response)
          IN cp' = [cp EXCEPT !.probe = Some(response), !.validation = Completion(thrown),
                              !.pc = IF thrown = None THEN "validated" ELSE "failed"]
    /\ UNCHANGED <<listVars, svcVars, ctrVars>>

\* the metadata request ends without a response: axios.get rejects and
\* validateCopySource, which has no catch, rejects with the same error
ProbeFails ==
    /\ cp.pc = "probing"
    /\ \E e \in TransportErrors :
          cp' = [cp EXCEPT !.transport = Some(e), !.validation = Some(AxiosError(e)),
                           !.pc = "failed"]
    /\ UNCHANGED <<listVars, svcVars, ctrVars>>

\* the caller reads the content once the source is validated
GetCopySourceContent ==
    /\ cp.pc = "validated"
    /\ cp' = [cp EXCEPT !.pc = "fetching",
                        !.requests = Append(@, contentRequest(cp.copySource, cp.sourceRange))]
    /\ UNCHANGED <<listVars, svcVars, ctrVars>>

ContentResponds ==
    /\ cp.pc = "fetching"
    /\ \E response \in Responses :
          LET thrown == contentOutcome(response)
          IN cp' = [cp EXCEPT !.fetched = Some(response), !.content = Completion(thrown),
                              !.pc = IF thrown = None THEN "done" ELSE "failed"]
    /\ UNCHANGED <<listVars, svcVars, ctrVars>>

\* the content request ends without a response: getCopySourceContent rejects
\* with the AxiosError
ContentFails ==
    /\ cp.pc = "fetching"
    /\ \E e \in TransportErrors :
          cp' = [cp EXCEPT !.transport = Some(e), !.content = Some(AxiosError(e)),
                           !.pc = "failed"]
    /\ UNCHANGED <<listVars, svcVars, ctrVars>>

CopyNext ==
    \/ ValidateCopySource \/ ProbeResponds \/ ProbeFails
    \/ GetCopySourceContent \/ ContentResponds \/ ContentFails
SpecCopy == CopyInit /\ [][CopyNext]_vars

----------------------------------------------------------------------------
(* Copy-source validation: properties *)

HostsMatch == URLParses(cp.copySource) /\ Default(cp.hostHeader, "") = URLHost(cp.copySource)
HostsDiffer == URLParses(cp.copySource) /\ Default(cp.hostHeader, "") # URLHost(cp.copySource)
MetadataProbes == { i \in 1..Len(cp.requests) : cp.requests[i].comp = Some("metadata") }

\* C4: when the Host header differs from the host of the copy-source URL,
\* validateCopySource fails with CannotVerifyCopySource, status 404, message
\* "The specified resource does not exist", and no request has been issued.
C4_HostMismatchNoProbe ==
    (cp.pc # "idle" /\ HostsDiffer) =>
        /\ cp.pc = "failed"
        /\ cp.validation = Some([code |-> "CannotVerifyCopySource", statusCode |-> 404,
                                 message |-> <<"The specified resource does not exist">>])
        /\ cp.requests = <<>>

C4_Witness ==
    /\ cp.pc = "failed"
    /\ cp.hostHeader = Some("127.0.0.1:10000")
    /\ cp.copySource = "http://otherhost:10000/account2/c/b?sig=s"
    /\ cp.validation # None /\ cp.validation[1].code = "CannotVerifyCopySource"

\* C5: when the hosts match, validateCopySource issues exactly one probe GET
\* (the copy source with comp=metadata), never a second one, and how it ends
\* is decided by the probe's status alone: 200 succeeds, 404 fails with
\* CannotVerifyCopySource 404, any other status s (other 2xx included) fails
\* with CannotVerifyCopySource carrying s.
C5_SingleProbeDecides ==
    (cp.pc # "idle" /\ HostsMatch) =>
        /\ Cardinality(MetadataProbes) = 1
        /\ cp.requests[1] = [method |-> "GET", url |-> cp.copySource,
                             comp |-> Some("metadata"), Range |-> None]
        /\ cp.probe # None =>
              LET s == cp.probe[1].status
                  v == cp.validation[1]
              IN /\ cp.validation # None
                 /\ IF s = 200 THEN v = Returned
                    ELSE v.code = "CannotVerifyCopySource" /\ v.statusCode = s

\* a probe answered with another 2xx status
C5_Witness ==
    /\ cp.pc = "failed" /\ HostsMatch
    /\ cp.probe # None /\ cp.probe[1].status = 204
    /\ cp.validation[1].code = "CannotVerifyCopySource"
    /\ cp.validation[1].statusCode = 204

\* C6: when the probe or the content fetch fails at transport level,
\* validateCopySource and getCopySourceContent end in a CannotVerifyCopySource
\* failure, never in another kind of failure.
C6_TransportFailureIsCannotVerify ==
    (cp.pc # "idle" /\ cp.transport # None) =>
        LET ended == IF cp.content # None THEN cp.content ELSE cp.validation
        IN ended # None /\ ended[1].code = "CannotVerifyCopySource"

\* C14: for a copy source that does not parse as a URL validateCopySource fails
\* with InvalidHeaderValue naming the header x-ms-copy-source and the offending
\* value, whatever the Host header is, and issues no network request.
C14_UnparsableSourceIsInvalidHeader ==
    (cp.pc # "idle" /\ ~URLParses(cp.copySource)) =>
        /\ cp.pc = "failed"
        /\ cp.validation # None
        /\ cp.validation[1].code = "InvalidHeaderValue"
        /\ cp.validation[1].HeaderName = "x-ms-copy-source"
        /\ cp.validation[1].HeaderValue = cp.copySource
        /\ cp.requests = <<>> /\ cp.probe = None /\ cp.content = None

\* an unparsable copy source on a request that carries a Host header
C14_Witness ==
    /\ cp.pc = "failed"
    /\ cp.copySource = "not a url"
    /\ cp.hostHeader = Some("127.0.0.1:10000")
    /\ cp.validation # None /\ cp.validation[1].code = "InvalidHeaderValue"

----------------------------------------------------------------------------
(* ServiceHandler: service properties *)

\* ../utils/constants BLOB_API_VERSION, the version stamped on every response
BLOB_API_VERSION == "BLOB_API_VERSION"

defaultServiceProperties_version10 ==
    [cors |-> Some(<<>>),
     defaultServiceVersion |-> Some("1.0"),
     hourMetrics |-> Some([enabled |-> FALSE, retentionPolicy |-> [enabled |-> FALSE],
                           version |-> "1.0"]),
     logging |-> Some([deleteProperty |-> TRUE, read |-> TRUE,
                       retentionPolicy |-> [enabled |-> FALSE],
                       version |-> "1.0", write |-> TRUE]),
     minuteMetrics |-> Some([enabled |-> FALSE, retentionPolicy |-> [enabled |-> FALSE],
                             version |-> "1.0"]),
     staticWebsite |-> Some([enabled |-> FALSE])]
defaultServiceProperties ==
    [cors |-> Some(<<>>),
     defaultServiceVersion |-> Some(BLOB_API_VERSION),
     hourMetrics |-> Some([enabled |-> FALSE, retentionPolicy |-> [enabled |-> FALSE],
                           version |-> "1.0"]),
     logging |-> Some([deleteProperty |-> TRUE, read |-> TRUE,
                       retentionPolicy |-> [enabled |-> FALSE],
                       version |-> "1.0", write |-> TRUE]),
     minuteMetrics |-> Some([enabled |-> FALSE, retentionPolicy |-> [enabled |-> FALSE],
                             version |-> "1.0"]),
     staticWebsite |-> Some([enabled |-> FALSE])]

PropertyNames == { "cors", "defaultServiceVersion", "hourMetrics", "logging",
                   "minuteMetrics", "staticWebsite" }

\* request bodies of setProperties.  corsElement is the name the body spells
\* its CORS element with ("absent": the body has none) and cors the rules in it
CorsLists == { <<>>, <<"rule1">>, <<"rule2", "rule1">> }
MetricsOn == [enabled |-> TRUE, retentionPolicy |-> [enabled |-> TRUE], version |-> "1.0"]
LoggingOff == [deleteProperty |-> FALSE, read |-> FALSE,
               retentionPolicy |-> [enabled |-> FALSE], version |-> "1.0", write |-> FALSE]
OtherElements ==
    { [defaultServiceVersion |-> None, hourMetrics |-> None, logging |-> None,
       minuteMetrics |-> None, staticWebsite |-> None],
      [defaultServiceVersion |-> Some("2019-02-02"), hourMetrics |-> Some(MetricsOn),
       logging |-> None, minuteMetrics |-> None, staticWebsite |-> None],
      [defaultServiceVersion |-> None, hourMetrics |-> None, logging |-> Some(LoggingOff),
       minuteMetrics |-> Some(MetricsOn), staticWebsite |-> Some([enabled |-> TRUE])] }
Bodies == { b \in [corsElement : {"absent", "cors", "Cors"}, cors : CorsLists,
                   other : OtherElements] :
              b.corsElement = "absent" => b.cors = <<>> }

\* the protocol layer's deserializer: storageServiceProperties of a body; an
\* absent CORS element comes out as an empty array instead of undefined
deserialize(body) ==
    [cors |-> Some(body.cors),
     defaultServiceVersion |-> body.other.defaultServiceVersion,
     hourMetrics |-> body.other.hourMetrics,
     logging |-> body.other.logging,
     minuteMetrics |-> body.other.minuteMetrics,
     staticWebsite |-> body.other.staticWebsite]

\* parseXML(body): the own properties of the parsed body
parsedBody(body) ==
    (IF body.corsElement = "absent" THEN {} ELSE {body.corsElement})
    \cup { n \in PropertyNames \ {"cors"} : body.other[n] # None }

\* metadataStore.setServiceProperties: an undefined property of the update
\* leaves the stored one as it is
storeSetServiceProperties(stored, update) ==
    IF stored = None THEN Some(update)
    ELSE Some([n \in PropertyNames |-> IF update[n] = None THEN stored[1][n] ELSE update[n]])

setProperties_keepCors(stored, body) ==
    storeSetServiceProperties(stored, deserialize(body))
\* ServiceHandler.setProperties: the record the store holds after the call
setProperties(stored, body) ==
    LET storageServiceProperties == deserialize(body)
        fixed == IF "cors" \notin parsedBody(body) /\ "Cors" \notin parsedBody(body)
                 THEN [storageServiceProperties EXCEPT !.cors = None]
                 ELSE storageServiceProperties
    IN storeSetServiceProperties(stored, fixed)

\* ServiceHandler.getProperties: the response for the stored record
getProperties(stored) ==
    LET properties == IF stored = None THEN defaultServiceProperties ELSE stored[1]
        filled(n) == IF properties[n] = None THEN defaultServiceProperties[n][1]
                     ELSE properties[n][1]
    IN [cors |-> IF properties.cors = None THEN <<>> ELSE properties.cors[1],
        hourMetrics |-> filled("hourMetrics"),
        logging |-> filled("logging"),
        minuteMetrics |-> filled("minuteMetrics"),
        defaultServiceVersion |-> filled("defaultServiceVersion"),
        staticWebsite |-> filled("staticWebsite"),
        statusCode |-> 200, version |-> BLOB_API_VERSION]

SvcInit == ListQuiet /\ CopyQuiet /\ CtrQuiet /\ SvcQuiet

SetProperties ==
    /\ \E account \in Accounts, body \in Bodies :
          /\ serviceProperties' =
                [serviceProperties EXCEPT ![account] = setProperties(@, body)]
          /\ svcRes' = [op |-> "setProperties", account |-> account, body |-> body,
                        statusCode |-> 202, version |-> BLOB_API_VERSION]
    /\ UNCHANGED <<listVars, copyVars, ctrVars>>

GetProperties ==
    /\ \E account \in Accounts :
          svcRes' = [op |-> "getProperties", account |-> account,
                     stored |-> serviceProperties[account],
                     response |-> getProperties(serviceProperties[account])]
    /\ UNCHANGED <<listVars, copyVars, ctrVars, serviceProperties>>

\* `throw new Error("Method not implemented.")`: a plain Error, no StorageError
MethodNotImplemented == [code |-> "Error", message |-> "Method not implemented."]

\* the keyInfo of getUserDelegationKey and the content length of submitBatch
KeyInfos == { [start |-> "2020-01-01", expiry |-> "2020-01-02"],
              [start |-> "2020-01-02", expiry |-> "2020-01-01"] }
ContentLengths == { 0, 512 }

\* ServiceHandler.getUserDelegationKey
GetUserDelegationKey ==
    /\ \E account \in Accounts, keyInfo \in KeyInfos :
          svcRes' = [op |-> "getUserDelegationKey", account |-> account,
                     keyInfo |-> keyInfo, thrown |-> MethodNotImplemented]
    /\ UNCHANGED <<listVars, copyVars, ctrVars, serviceProperties>>

\* ServiceHandler.submitBatch
SubmitBatch ==
    /\ \E account \in Accounts, contentLength \in ContentLengths :
          svcRes' = [op |-> "submitBatch", account |-> account,
                     contentLength |-> contentLength, thrown |-> MethodNotImplemented]
    /\ UNCHANGED <<listVars, copyVars, ctrVars, serviceProperties>>

SvcNext == SetProperties \/ GetProperties \/ GetUserDelegationKey \/ SubmitBatch
SpecService == SvcInit /\ [][SvcNext]_vars

----------------------------------------------------------------------------
(* Service properties: properties *)

\* the CORS rules the next getProperties on the account reports
ObservedCors(store, account) == getProperties(store[account]).cors

\* C8: a setProperties call whose body has no cors element leaves the CORS
\* rules of the account as they were before the call, and one whose body has
\* an explicit empty cors element makes them empty, as the next getProperties
\* reports them.
C8_CorsClearVsUnset ==
    [][ svcRes'.op = "setProperties" =>
          LET a == svcRes'.account
              body == svcRes'.body
          IN /\ body.corsElement = "absent" =>
                   ObservedCors(serviceProperties', a) = ObservedCors(serviceProperties, a)
             /\ (body.corsElement # "absent" /\ body.cors = <<>>) =>
                   ObservedCors(serviceProperties', a) = <<>>
      ]_vars

\* stored CORS rules that a later setProperties without a cors element left in place
C8_Witness ==
    /\ svcRes.op = "setProperties"
    /\ svcRes.body.corsElement = "absent"
    /\ svcRes.body.other.hourMetrics # None
    /\ ObservedCors(serviceProperties, svcRes.account) = <<"rule2", "rule1">>

FreshAccountRead == svcRes.op = "getProperties" /\ svcRes.stored = None

C15_NotImplementedTyped ==
    svcRes.op \in {"getUserDelegationKey", "submitBatch"} =>
        svcRes.thrown.code = "NotImplemented"

----------------------------------------------------------------------------
(* Identifier generator and metadata store: containers and their leases *)

\* newEtag(): a token never issued before, drawn from the process-wide counter
newEtag(counter) == counter + 1

Metadatas == { Some("m1") }
PublicAccesses == { Some("blob") }
\* lease durations in seconds (-1: infinite) and break periods
LeaseDurations == { -1, 15 }
BreakPeriods == { None, Some(10) }
LeaseIds == { "X", "Y" }
\* lease ids the store generates when none is proposed
GeneratedLeaseIds == { "uuid-1" }

Max(a, b) == IF a > b THEN a ELSE b

Ok(container, result) == [ok |-> TRUE, container |-> container, result |-> result]
Fail(code) == [ok |-> FALSE, error |-> code]

\* lazy lease transitions: Leased -> Expired once the expiry time has passed,
\* Breaking -> Broken once the break period has elapsed
reconcile(c, t) ==
    IF c.leaseState = "leased" /\ c.leaseExpiryTime # None /\ t >= c.leaseExpiryTime[1]
    THEN [c EXCEPT !.leaseState = "expired", !.leaseStatus = "unlocked",
                   !.leaseExpiryTime = None]
    ELSE IF c.leaseState = "breaking" /\ t >= c.leaseBreakTime[1]
    THEN [c EXCEPT !.leaseState = "broken", !.leaseStatus = "unlocked",
                   !.leaseBreakTime = None]
    ELSE c

\* createContainer
createContainer(stored, container) ==
    IF stored # None THEN Fail("ContainerAlreadyExists") ELSE Ok(Some(container), None)

\* deleteContainer
deleteContainer(stored) ==
    IF stored = None THEN Fail("ContainerNotFound") ELSE Ok(None, None)

\* setContainerMetadata(account, container, lastModified, etag, metadata)
setContainerMetadata(stored, lastModified, etag, metadata) ==
    IF stored = None THEN Fail("ContainerNotFound")
    ELSE Ok(Some([stored[1] EXCEPT !.etag = etag, !.lastModified = lastModified,
                                   !.metadata = metadata]), None)

\* setContainerACL(account, container, {lastModified, etag, publicAccess, containerAcl})
setContainerACL(stored, acl) ==
    IF stored = None THEN Fail("ContainerNotFound")
    ELSE Ok(Some([stored[1] EXCEPT !.etag = acl.etag, !.lastModified = acl.lastModified,
                                   !.publicAccess = acl.publicAccess]), None)

Leased(c, t, etag, leaseId, duration) ==
    [c EXCEPT !.leaseState = "leased", !.leaseStatus = "locked",
              !.leaseId = Some(leaseId), !.leaseDuration = Some(duration),
              !.leaseExpiryTime = IF duration = -1 THEN None ELSE Some(t + duration),
              !.leaseBreakTime = None,
              !.etag = etag, !.lastModified = t]

\* acquireContainerLease
acquireContainerLease(stored, t, etag, duration, proposedLeaseId, generated) ==
    IF stored = None THEN Fail("ContainerNotFound")
    ELSE LET c == reconcile(stored[1], t)
             leaseId == Default(proposedLeaseId, generated)
             new == Leased(c, t, etag, leaseId, duration)
         IN CASE c.leaseState \in {"available", "expired", "broken"} ->
                    Ok(Some(new), [properties |-> new, leaseId |-> Some(leaseId)])
              [] c.leaseState = "leased" ->
                    IF proposedLeaseId # None /\ proposedLeaseId = c.leaseId
                    THEN Ok(Some(new), [properties |-> new, leaseId |-> Some(leaseId)])
                    ELSE Fail("LeaseAlreadyPresent")
              [] c.leaseState = "breaking" ->
                    IF proposedLeaseId # None /\ proposedLeaseId = c.leaseId
                    THEN Fail("LeaseIsBreakingAndCannotBeAcquired")
                    ELSE Fail("LeaseAlreadyPresent")

\* renewContainerLease
renewContainerLease(stored, t, etag, leaseId) ==
    IF stored = None THEN Fail("ContainerNotFound")
    ELSE LET c == reconcile(stored[1], t)
             new == Leased(c, t, etag, leaseId, c.leaseDuration[1])
         IN IF c.leaseState = "available" THEN Fail("LeaseNotPresent")
            ELSE IF c.leaseId # Some(leaseId) THEN Fail("LeaseIdMismatchWithLeaseOperation")
            ELSE IF c.leaseState = "breaking" THEN Fail("LeaseIsBreakingAndCannotBeRenewed")
            ELSE IF c.leaseState = "broken" THEN Fail("LeaseIsBrokenAndCannotBeRenewed")
            ELSE Ok(Some(new), [properties |-> new, leaseId |-> Some(leaseId)])

\* releaseContainerLease
releaseContainerLease(stored, t, etag, leaseId) ==
    IF stored = None THEN Fail("ContainerNotFound")
    ELSE LET c == reconcile(stored[1], t)
             new == [c EXCEPT !.leaseState = "available", !.leaseStatus = "unlocked",
                              !.leaseId = None, !.leaseDuration = None,
                              !.leaseExpiryTime = None, !.leaseBreakTime = None,
                              !.etag = etag, !.lastModified = t]
         IN IF c.leaseState \in {"leased", "breaking", "broken"} /\ c.leaseId = Some(leaseId)
            THEN Ok(Some(new), new)
            ELSE Fail("LeaseIdMismatchWithLeaseOperation")

\* breakContainerLease: the remaining time is the lease's remaining duration,
\* cut to the break period when one is given
breakContainerLease(stored, t, etag, breakPeriod) ==
    IF stored = None THEN Fail("ContainerNotFound")
    ELSE LET c == reconcile(stored[1], t)
             remaining ==
                 IF c.leaseState = "breaking" THEN c.leaseBreakTime[1] - t
                 ELSE IF c.leaseExpiryTime = None THEN Default(breakPeriod, 0)
                 ELSE Max(0, c.leaseExpiryTime[1] - t)
             leaseTime == IF breakPeriod = None THEN remaining
                          ELSE Min(breakPeriod[1], remaining)
             new == IF leaseTime = 0
                    THEN [c EXCEPT !.leaseState = "broken", !.leaseStatus = "unlocked",
                                   !.leaseExpiryTime = None, !.leaseBreakTime = None,
                                   !.etag = etag, !.lastModified = t]
                    ELSE [c EXCEPT !.leaseState = "breaking", !.leaseStatus = "locked",
                                   !.leaseExpiryTime = None,
                                   !.leaseBreakTime = Some(t + leaseTime),
                                   !.etag = etag, !.lastModified = t]
         IN IF c.leaseState \in {"leased", "breaking"}
            THEN Ok(Some(new), [properties |-> new, leaseTime |-> leaseTime])
            ELSE Fail("LeaseNotPresent")

\* changeContainerLease
changeContainerLease(stored, t, etag, leaseId, proposedLeaseId) ==
    IF stored = None THEN Fail("ContainerNotFound")
    ELSE LET c == reconcile(stored[1], t)
             new == [c EXCEPT !.leaseId = Some(proposedLeaseId),
                              !.etag = etag, !.lastModified = t]
         IN IF c.leaseState = "available" THEN Fail("LeaseNotPresent")
            ELSE IF c.leaseId # Some(leaseId) THEN Fail("LeaseIdMismatchWithLeaseOperation")
            ELSE IF c.leaseState # "leased" THEN Fail("LeaseNotPresent")
            ELSE Ok(Some(new), [properties |-> new, leaseId |-> Some(proposedLeaseId)])

----------------------------------------------------------------------------
(* ContainerHandler: container mutations and leases *)

\* the container model ContainerHandler.create hands to the store
newContainer(etag, lastModified, metadata, access) ==
    [etag |-> etag, lastModified |-> lastModified, metadata |-> metadata,
     publicAccess |-> access,
     leaseStatus |-> "unlocked", leaseState |-> "available",
     leaseId |-> None, leaseDuration |-> None,
     leaseExpiryTime |-> None, leaseBreakTime |-> None,
     hasImmutabilityPolicy |-> FALSE, hasLegalHold |-> FALSE]

\* the responses of ContainerHandler
createResponse(etag, lastModified) ==
    [statusCode |-> 201, eTag |-> etag, lastModified |-> lastModified]
setMetadataResponse(date, eTag) ==
    [statusCode |-> 200, date |-> date, eTag |-> eTag, lastModified |-> date]
setAccessPolicyResponse(date, eTag) ==
    [statusCode |-> 200, date |-> date, eTag |-> eTag, lastModified |-> date]
deleteResponse(startTime) ==
    [statusCode |-> 202, date |-> startTime]
acquireLeaseResponse_noLeaseId(res, startTime) ==
    [statusCode |-> 201, date |-> startTime, eTag |-> res.properties.etag,
     lastModified |-> res.properties.lastModified, leaseId |-> None]
acquireLeaseResponse(res, startTime) ==
    [statusCode |-> 201, date |-> startTime, eTag |-> res.properties.etag,
     lastModified |-> res.properties.lastModified, leaseId |-> res.leaseId]
releaseLeaseResponse(res, startTime) ==
    [statusCode |-> 200, date |-> startTime, eTag |-> res.etag,
     lastModified |-> res.lastModified]
renewLeaseResponse(res, startTime) ==
    [statusCode |-> 200, date |-> startTime, eTag |-> res.properties.etag,
     lastModified |-> res.properties.lastModified, leaseId |-> res.leaseId]
breakLeaseResponse(res, startTime) ==
    [statusCode |-> 202, date |-> startTime, eTag |-> res.properties.etag,
     lastModified |-> res.properties.lastModified, leaseTime |-> res.leaseTime]
changeLeaseResponse(res, startTime) ==
    [statusCode |-> 200, date |-> startTime, eTag |-> res.properties.etag,
     lastModified |-> res.properties.lastModified, leaseId |-> res.leaseId]

\* the outcome of a request as the caller sees it
Answered(op, name, res, response) ==
    IF res.ok THEN [op |-> op, container |-> name, ok |-> TRUE, response |-> response]
    ELSE [op |-> op, container |-> name, ok |-> FALSE, error |-> res.error]

\* the store after a call on container `name`
Stored(name, res) == IF res.ok THEN [containers EXCEPT ![name] = res.container] ELSE containers

\* the bag of returned etags with the etag of one more successful response
Returning(res, eTag) ==
    IF ~res.ok THEN returned
    ELSE [e \in DOMAIN returned \cup {eTag} |->
             (IF e \in DOMAIN returned THEN returned[e] ELSE 0) + (IF e = eTag THEN 1 ELSE 0)]

CtrInit == ListQuiet /\ CopyQuiet /\ SvcQuiet /\ CtrQuiet

\* the wall clock (context.startTime, new Date()) passes 15 seconds
Tick ==
    /\ now < 15 * MaxTicks
    /\ now' = now + 15
    /\ UNCHANGED <<listVars, copyVars, svcVars, rt, containers, etagCounter, inflight, issued,
                   ctrRes, returned>>

CreateOptions == { [metadata |-> None, access |-> None],
                   [metadata |-> Some("m1"), access |-> Some("blob")] }

\* a handler up to its await: the request's start time and a new etag are fixed
Begin(op, name, metadata, access) ==
    /\ issued < MaxRequests
    /\ issued' = issued + 1
    /\ inflight' = inflight \cup
          { [op |-> op, container |-> name, date |-> now, eTag |-> newEtag(etagCounter),
             metadata |-> metadata, access |-> access] }
    /\ etagCounter' = newEtag(etagCounter)
    /\ UNCHANGED <<listVars, copyVars, svcVars, rt, containers, now, ctrRes, returned>>

CreateStart_staleEtag ==
    /\ issued < MaxRequests
    /\ issued' = issued + 1
    /\ \E name \in ContainerNames, options \in CreateOptions :
          inflight' = inflight \cup
             { [op |-> "create", container |-> name, date |-> now, eTag |-> etagCounter,
                metadata |-> options.metadata, access |-> options.access] }
    /\ UNCHANGED <<listVars, copyVars, svcVars, rt, containers, now, ctrRes, returned, etagCounter>>
\* ContainerHandler.create up to its await
CreateStart ==
    /\ \E name \in ContainerNames, options \in CreateOptions :
          Begin("create", name, options.metadata, options.access)

\* ContainerHandler.setMetadata up to its await
SetMetadataStart ==
    /\ \E name \in ContainerNames, metadata \in Metadatas :
          Begin("setMetadata", name, metadata, None)

\* ContainerHandler.setAccessPolicy up to its await
SetAccessPolicyStart ==
    /\ \E name \in ContainerNames, access \in PublicAccesses :
          Begin("setAccessPolicy", name, None, access)

\* the store applies the call of a request in flight and the handler answers
Finish(r, res, response) ==
    /\ inflight' = inflight \ {r}
    /\ containers' = Stored(r.container, res)
    /\ ctrRes' = Answered(r.op, r.container, res, response)
    /\ returned' = Returning(res, response.eTag)
    /\ UNCHANGED <<listVars, copyVars, svcVars, rt, etagCounter, now, issued>>

\* ContainerHandler.create from the store call on
Create ==
    \E r \in inflight :
        /\ r.op = "create"
        /\ Finish(r, createContainer(containers[r.container],
                         newContainer(r.eTag, r.date, r.metadata, r.access)),
                  createResponse(r.eTag, r.date))

\* ContainerHandler.setMetadata from the store call on
SetMetadata ==
    \E r \in inflight :
        /\ r.op = "setMetadata"
        /\ Finish(r, setContainerMetadata(containers[r.container], r.date, r.eTag, r.metadata),
                  setMetadataResponse(r.date, r.eTag))

\* ContainerHandler.setAccessPolicy from the store call on
SetAccessPolicy ==
    \E r \in inflight :
        /\ r.op = "setAccessPolicy"
        /\ Finish(r, setContainerACL(containers[r.container],
                         [lastModified |-> r.date, etag |-> r.eTag, publicAccess |-> r.access]),
                  setAccessPolicyResponse(r.date, r.eTag))

\* a handler that only awaits one store call and answers from its result;
\* the store draws the new etag of a successful lease operation
Serve(op, name, res, response) ==
    /\ issued < MaxRequests
    /\ issued' = issued + 1
    /\ containers' = Stored(name, res)
    /\ ctrRes' = Answered(op, name, res, response)
    /\ UNCHANGED <<listVars, copyVars, svcVars, now, inflight>>
\* a request of some caller other than the round-trip client
Call(op, name, res, response) ==
    /\ Serve(op, name, res, response)
    /\ UNCHANGED rt

Delete ==
    /\ \E name \in ContainerNames :
          Call("delete", name, deleteContainer(containers[name]), deleteResponse(now))
    /\ UNCHANGED <<etagCounter, returned>>

LeaseServe(op, name, res, response) ==
    /\ Serve(op, name, res, response)
    /\ etagCounter' = IF res.ok THEN newEtag(etagCounter) ELSE etagCounter
    /\ returned' = IF res.ok THEN Returning(res, response.eTag) ELSE returned
LeaseCall(op, name, res, response) ==
    /\ LeaseServe(op, name, res, response)
    /\ UNCHANGED rt

AcquireLease ==
    /\ \E name \in ContainerNames, duration \in LeaseDurations,
          proposedLeaseId \in {None} \cup { Some(l) : l \in LeaseIds },
          generated \in GeneratedLeaseIds :
          LET res == acquireContainerLease(containers[name], now, newEtag(etagCounter),
                                           duration, proposedLeaseId, generated)
          IN LeaseCall("acquireLease", name, res,
                       IF res.ok THEN acquireLeaseResponse(res.result, now) ELSE None)

ReleaseLease ==
    /\ \E name \in ContainerNames, leaseId \in LeaseIds :
          LET res == releaseContainerLease(containers[name], now, newEtag(etagCounter), leaseId)
          IN LeaseCall("releaseLease", name, res,
                       IF res.ok THEN releaseLeaseResponse(res.result, now) ELSE None)

\* ContainerHandler.renewLease(leaseId) on container name
RenewLeaseOf(name, leaseId) ==
    LET res == renewContainerLease(containers[name], now, newEtag(etagCounter), leaseId)
    IN LeaseCall("renewLease", name, res,
                 IF res.ok THEN renewLeaseResponse(res.result, now) ELSE None)

RenewLease ==
    /\ \E name \in ContainerNames, leaseId \in LeaseIds : RenewLeaseOf(name, leaseId)

BreakLease ==
    /\ \E name \in ContainerNames, breakPeriod \in BreakPeriods :
          LET res == breakContainerLease(containers[name], now, newEtag(etagCounter),
                                         breakPeriod)
          IN LeaseCall("breakLease", name, res,
                       IF res.ok THEN breakLeaseResponse(res.result, now) ELSE None)

ChangeLease ==
    /\ \E name \in ContainerNames, leaseId \in LeaseIds, proposedLeaseId \in LeaseIds :
          LET res == changeContainerLease(containers[name], now, newEtag(etagCounter),
                                          leaseId, proposedLeaseId)
          IN LeaseCall("changeLease", name, res,
                       IF res.ok THEN changeLeaseResponse(res.result, now) ELSE None)

CtrNext ==
    \/ Tick
    \/ CreateStart \/ Create
    \/ SetMetadataStart \/ SetMetadata
    \/ SetAccessPolicyStart \/ SetAccessPolicy
    \/ Delete
    \/ AcquireLease \/ ReleaseLease \/ RenewLease \/ BreakLease \/ ChangeLease
SpecContainer == CtrInit /\ [][CtrNext]_vars

----------------------------------------------------------------------------
(* Container mutations: properties *)

C18_LastModifiedNeverDecreases ==
    [][ \A c \in ContainerNames :
          (containers[c] # None /\ containers'[c] # None) =>
              /\ containers'[c][1].lastModified >= containers[c][1].lastModified
              /\ (ctrRes'.op \in {"setMetadata", "setAccessPolicy"} /\ ctrRes'.ok
                     /\ ctrRes'.container = c /\ containers'[c] # containers[c]) =>
                    \E r \in inflight \ inflight' :
                        /\ containers'[c][1].etag = r.eTag
                        /\ containers'[c][1].lastModified = r.date
      ]_vars

----------------------------------------------------------------------------
(* Lease round trip: a client calling acquireLease, releaseLease, acquireLease *)

\* containers whose lease is Available: just created, or leased and released before
CreatedContainer(etag) == newContainer(etag, 0, None, None)
ReleasedContainer(etag) ==
    LET leased == acquireContainerLease(Some(CreatedContainer(etag)), 0, etag + 1, -1,
                                        Some("X"), "uuid-1").container
    IN releaseContainerLease(leased, 0, etag + 2, "X").container[1]

RoundTripInit ==
    /\ ListQuiet /\ CopyQuiet /\ SvcQuiet
    /\ \E first \in { <<CreatedContainer(1), 1>>, <<ReleasedContainer(1), 3>> },
          other \in {"absent", "created", "released"} :
          /\ containers =
                [c \in ContainerNames |->
                    IF c = "c1" THEN Some(first[1])
                    ELSE CASE other = "absent" -> None
                           [] other = "created" -> Some(CreatedContainer(first[2] + 1))
                           [] other = "released" -> Some(ReleasedContainer(first[2] + 1))]
          /\ etagCounter = first[2] + (CASE other = "absent" -> 0 [] other = "created" -> 1
                                          [] other = "released" -> 3)
    /\ now = 0 /\ inflight = {} /\ issued = 0
    /\ ctrRes = NoResponse /\ returned = <<>>
    /\ rt = ClientIdle

\* step 1: acquireLease proposing X on a container whose lease is Available
RoundTripAcquire ==
    /\ rt.pc = "idle"
    /\ \E name \in ContainerNames, duration \in LeaseDurations, X \in LeaseIds, Y \in LeaseIds,
          generated \in GeneratedLeaseIds :
          /\ containers[name] # None
          /\ reconcile(containers[name][1], now).leaseState = "available"
          /\ LET res == acquireContainerLease(containers[name], now, newEtag(etagCounter),
                                              duration, Some(X), generated)
                 response == IF res.ok THEN acquireLeaseResponse(res.result, now) ELSE None
             IN /\ LeaseServe("acquireLease", name, res, response)
                /\ rt' = [pc |-> "acquired", container |-> name, X |-> X, Y |-> Y,
                          duration |-> duration, at |-> <<now>>,
                          outcomes |-> <<Answered("acquireLease", name, res, response)>>]

\* step 2: releaseLease with X
RoundTripRelease ==
    /\ rt.pc = "acquired"
    /\ LET res == releaseContainerLease(containers[rt.container], now, newEtag(etagCounter),
                                        rt.X)
           response == IF res.ok THEN releaseLeaseResponse(res.result, now) ELSE None
       IN /\ LeaseServe("releaseLease", rt.container, res, response)
          /\ rt' = [rt EXCEPT !.pc = "released", !.at = Append(@, now),
                       !.outcomes = Append(@, Answered("releaseLease", rt.container, res,
                                                       response))]

\* step 3: acquireLease proposing Y
RoundTripReacquire ==
    /\ rt.pc = "released"
    /\ \E duration \in LeaseDurations, generated \in GeneratedLeaseIds :
          LET res == acquireContainerLease(containers[rt.container], now,
                                           newEtag(etagCounter), duration, Some(rt.Y),
                                           generated)
              response == IF res.ok THEN acquireLeaseResponse(res.result, now) ELSE None
          IN /\ LeaseServe("acquireLease", rt.container, res, response)
             /\ rt' = [rt EXCEPT !.pc = "done", !.at = Append(@, now),
                          !.outcomes = Append(@, Answered("acquireLease", rt.container, res,
                                                          response))]

RoundTripNext == Tick \/ RoundTripAcquire \/ RoundTripRelease \/ RoundTripReacquire
SpecRoundTrip == RoundTripInit /\ [][RoundTripNext]_vars

\* the release came before the lease taken in step 1 ran out
ReleasedInTime == rt.duration = -1 \/ rt.at[2] < rt.at[1] + rt.duration

----------------------------------------------------------------------------
(* Leases over time: lease operations and the operations that report lease state *)

LIST_CONTAINERS_MAX_RESULTS_DEFAULT == 2000

\* metadataStore.getContainerProperties(account, container, context): the
\* stored container with its lease reconciled against the request's time
getContainerProperties(stored, t) ==
    IF stored = None THEN Fail("ContainerNotFound")
    ELSE Ok(stored, reconcile(stored[1], t))

\* ContainerHandler.getProperties: the response spreads the store's properties
getPropertiesResponse(stored, properties) ==
    [statusCode |-> 200, eTag |-> properties.etag, lastModified |-> properties.lastModified,
     leaseState |-> properties.leaseState, leaseStatus |-> properties.leaseStatus,
     leaseDuration |-> properties.leaseDuration,
     blobPublicAccess |-> properties.publicAccess, metadata |-> properties.metadata]

\* container names in name order, and the names a prefix selects
ContainerOrder == <<"c1", "c2">>
ContainerHasPrefix(name, prefix) == prefix \in {"", "c"} \/ prefix = name
\* parseInt(marker, 10)
parseInt(str) == IF str = "1" THEN 1 ELSE 0
\* options of listContainersSegment
ListContainersOptions ==
    { [prefix |-> None, maxresults |-> None, marker |-> None],
      [prefix |-> Some("c2"), maxresults |-> None, marker |-> None],
      [prefix |-> Some("c"), maxresults |-> Some(1), marker |-> Some("1")],
      [prefix |-> Some(""), maxresults |-> Some(1), marker |-> None] }

\* metadataStore.listContainers(account, prefix, maxResults, marker): the
\* stored containers with the prefix, in name order, from offset marker on,
\* at most maxResults of them, as they are stored (the call carries no time)
listContainers(store, prefix, maxResults, marker) ==
    LET all == SelectSeq(ContainerOrder,
                         LAMBDA n : store[n] # None /\ ContainerHasPrefix(n, prefix))
        rest == SubSeq(all, marker + 1, Len(all))
        page == SubSeq(rest, 1, Min(maxResults, Len(rest)))
    IN [items |-> [i \in 1..Len(page) |-> [name |-> page[i], properties |-> store[page[i]][1]]],
        nextMarker |-> IF Len(rest) > maxResults THEN Some(marker + maxResults) ELSE None]

\* ServiceHandler.listContainersSegment
listContainersSegment(store, options) ==
    LET maxresults == OrElseNumber(options.maxresults, LIST_CONTAINERS_MAX_RESULTS_DEFAULT)
        prefix == IF options.prefix = None THEN "" ELSE options.prefix[1]
        marker == parseInt(IF options.marker = None THEN "0" ELSE options.marker[1])
        res == listContainers(store, prefix, maxresults, marker)
    IN [containerItems |-> res.items, maxResults |-> maxresults,
        nextMarker |-> res.nextMarker, prefix |-> prefix, statusCode |-> 200]

\* the requests that only read: one after another shows no more than one
ReadOps == { "getProperties", "listContainersSegment" }

LeaseInit ==
    /\ ListQuiet /\ CopyQuiet /\ SvcQuiet
    /\ \E other \in {"absent", "created"} :
          /\ containers = [c \in ContainerNames |->
                              IF c = "c1" THEN Some(CreatedContainer(1))
                              ELSE IF other = "absent" THEN None
                              ELSE Some(CreatedContainer(2))]
          /\ etagCounter = IF other = "absent" THEN 1 ELSE 2
    /\ now = 0 /\ inflight = {} /\ issued = 0
    /\ ctrRes = NoResponse /\ returned = <<>>
    /\ rt = ClientIdle

\* ContainerHandler.getProperties
ContainerGetProperties ==
    /\ ctrRes.op \notin ReadOps
    /\ \E name \in ContainerNames :
          LET res == getContainerProperties(containers[name], now)
          IN ctrRes' = IF res.ok
                       THEN [op |-> "getProperties", ok |-> TRUE, at |-> now,
                             reports |-> << [name |-> name,
                                             leaseState |-> getPropertiesResponse(
                                                 res.container, res.result).leaseState] >>,
                             response |-> getPropertiesResponse(res.container, res.result)]
                       ELSE [op |-> "getProperties", ok |-> FALSE, error |-> res.error]
    /\ UNCHANGED <<listVars, copyVars, svcVars, containers, etagCounter, now, inflight,
                   issued, returned, rt>>

\* ServiceHandler.listContainersSegment
ListContainersSegment ==
    /\ ctrRes.op \notin ReadOps
    /\ \E options \in ListContainersOptions :
          LET response == listContainersSegment(containers, options)
          IN ctrRes' = [op |-> "listContainersSegment", ok |-> TRUE, at |-> now,
                        reports |-> [i \in 1..Len(response.containerItems) |->
                                       [name |-> response.containerItems[i].name,
                                        leaseState |-> response.containerItems[i]
                                                          .properties.leaseState]],
                        response |-> response]
    /\ UNCHANGED <<listVars, copyVars, svcVars, containers, etagCounter, now, inflight,
                   issued, returned, rt>>

LeaseNext ==
    \/ Tick
    \/ AcquireLease \/ ReleaseLease \/ RenewLease \/ BreakLease \/ ChangeLease
    \/ ContainerGetProperties \/ ListContainersSegment
SpecLease == LeaseInit /\ [][LeaseNext]_vars

C13_ReportsReconciled ==
    (ctrRes.op \in ReadOps /\ ctrRes.ok) =>
        \A i \in 1..Len(ctrRes.reports) :
            LET c == containers[ctrRes.reports[i].name][1]
                reported == ctrRes.reports[i].leaseState
            IN /\ (c.leaseExpiryTime # None /\ ctrRes.at >= c.leaseExpiryTime[1])
                      => reported # "leased"
               /\ (c.leaseBreakTime # None /\ ctrRes.at >= c.leaseBreakTime[1])
                      => reported # "breaking"

====
